---- MODULE Spec2Model ----
(***************************************************************************)
(* Model of the watch/detect/respond core of shushard/ChatBot              *)
(* (internal.Service: ReadMessages, initializeSeenMessages, isReplyToBot,  *)
(* askChatGPT, updateConversationHistory, typeInChat).                     *)
(*                                                                         *)
(* Go strings are modelled as sequences of one-character strings, so that  *)
(* strings.TrimSpace, TrimPrefix, EqualFold, ReplaceAll, Fields and Join   *)
(* are computed the way the standard library computes them.                *)
(***************************************************************************)
EXTENDS Integers, Sequences, FiniteSets, TLC

VARIABLES
  pc,                   \* position of ReadMessages: start, top, batch, done, panicked
  feed,                 \* the render surface: id -> entry shown under that id
  botUsername,          \* Service.botUsername
  seenMessages,         \* Service.seenMessages (the set of keys mapped to true)
  conversationHistory,  \* Service.conversationHistory
  batch,                \* the element handles of the tick still to be processed
  cancelled,            \* ctx.Done() is closed
  result,               \* the error ReadMessages returned ("none" while running)
  forwarded,            \* id -> number of times the entry passed the seen check
  asked,                \* id -> number of askChatGPT calls made for the entry
  typed,                \* id -> number of typeInChat calls made for the entry
  sent,                 \* id -> number of typeInChat calls that returned nil
  initReadable,         \* ids whose attribute initializeSeenMessages could read
  commitLog,            \* every pair given to updateConversationHistory, in order
  ev,                   \* what the last step of the program did
  probe,                \* input and output of a string function under test
  run                   \* Service.Run and checkSite: position, resources, error

vars == <<pc, feed, botUsername, seenMessages, conversationHistory, batch,
          cancelled, result, forwarded, asked, typed, sent, initReadable, commitLog, ev, probe, run>>

-----------------------------------------------------------------------------
(* Bounds of the model *)

\* number of entry ids the feed can ever show in one session
MaxIds == 2
\* number of sites in config.SiteConfigs
MaxSites == 2
\* number of exchange pairs committed in the completion-adapter specification
MaxAsks == 6
\* number of whitespace-separated words of the long raw replies
ReplyWords == 120

(* Program constants *)

\* len(s.conversationHistory) > 10
HistoryLimit == 10
\* len(words) > 50
WordLimit == 50

Ids == 1..MaxIds

-----------------------------------------------------------------------------
(* package strings *)

\* unicode.IsSpace on the characters the model uses
IsSpace(c) == c \in {" ", "\n", "\t"}

\* the positions of s, in order
Positions(s) == [i \in 1..Len(s) |-> i]

\* the positions of the non-space characters of s, in order
NonSpace(s) == SelectSeq(Positions(s), LAMBDA i : ~IsSpace(s[i]))

\* strings.TrimSpace: s without its leading and trailing white space
TrimSpace(s) ==
  LET at == NonSpace(s)
  IN IF at = <<>> THEN <<>> ELSE SubSeq(s, at[1], at[Len(at)])

\* strings.HasPrefix
HasPrefix(s, p) == Len(s) >= Len(p) /\ SubSeq(s, 1, Len(p)) = p

\* strings.TrimPrefix: removes the prefix once, if present
TrimPrefix(s, p) ==
  IF HasPrefix(s, p) THEN SubSeq(s, Len(p) + 1, Len(s)) ELSE s

UpperCase ==
  <<"A", "B", "C", "D", "E", "F", "G", "H", "I", "J", "K", "L", "M",
    "N", "O", "P", "Q", "R", "S", "T", "U", "V", "W", "X", "Y", "Z">>

LowerCase ==
  <<"a", "b", "c", "d", "e", "f", "g", "h", "i", "j", "k", "l", "m",
    "n", "o", "p", "q", "r", "s", "t", "u", "v", "w", "x", "y", "z">>

\* simple case folding of one ASCII character
ToLower(c) ==
  IF \E i \in 1..26 : UpperCase[i] = c
  THEN LowerCase[CHOOSE i \in 1..26 : UpperCase[i] = c]
  ELSE c

\* strings.EqualFold
EqualFold(a, b) ==
  /\ Len(a) = Len(b)
  /\ \A i \in 1..Len(a) : ToLower(a[i]) = ToLower(b[i])

\* strings.ReplaceAll, character by character from the left (non-overlapping
\* matches); an empty old string replaced by the empty string leaves s as is
RECURSIVE ReplaceAllFrom(_, _, _)
ReplaceAllFrom(s, old, new) ==
  IF old = <<>> /\ new = <<>> THEN s
  ELSE IF s = <<>> THEN <<>>
  ELSE IF old # <<>> /\ HasPrefix(s, old)
       THEN new \o ReplaceAllFrom(SubSeq(s, Len(old) + 1, Len(s)), old, new)
       ELSE <<Head(s)>> \o ReplaceAllFrom(Tail(s), old, new)

\* strings.ReplaceAll; a one-character old string is deleted or substituted
\* in place, which gives the same text as the scan from the left
ReplaceAll(s, old, new) ==
  IF Len(old) = 1 /\ new = <<>> THEN SelectSeq(s, LAMBDA c : c # old[1])
  ELSE IF Len(old) = 1 /\ Len(new) = 1
       THEN [i \in 1..Len(s) |-> IF s[i] = old[1] THEN new[1] ELSE s[i]]
       ELSE ReplaceAllFrom(s, old, new)

\* strings.Fields: the maximal runs of non-space characters, in order
Fields(s) ==
  LET starts == SelectSeq(Positions(s),
                  LAMBDA i : ~IsSpace(s[i]) /\ (i = 1 \/ IsSpace(s[i - 1])))
      ends == SelectSeq(Positions(s),
                  LAMBDA i : ~IsSpace(s[i]) /\ (i = Len(s) \/ IsSpace(s[i + 1])))
  IN [k \in 1..Len(starts) |-> SubSeq(s, starts[k], ends[k])]

\* strings.Join: the elements of ws with sep between neighbours
RECURSIVE Join(_, _)
Join(ws, sep) ==
  IF ws = <<>> THEN <<>>
  ELSE IF Len(ws) = 1 THEN ws[1]
  ELSE LET half == Len(ws) \div 2
       IN Join(SubSeq(ws, 1, half), sep) \o sep
            \o Join(SubSeq(ws, half + 1, Len(ws)), sep)

-----------------------------------------------------------------------------
(* Text used by the model *)

sAt == <<"@">>
sComma == <<",">>
sPeriod == <<".">>
sNewline == <<"\n">>
sSpace == <<" ">>
sEmpty == <<>>

sBot == <<"B", "o", "t">>
sFoo == <<"F", "o", "o">>
sAtBot == <<"@", "B", "o", "t">>
sAlice == <<"a", "l", "i", "c", "e">>
sHelloRaw == <<"@", "B", "o", "t", " ", "h", "e", "l", "l", "o", ".">>
sHello == <<"h", "e", "l", "l", "o">>
sHiYou == <<"h", "i", ",", " ", "y", "o", "u">>

\* the fixed system instruction of askChatGPT, abbreviated
systemPrompt == <<"s", "y", "s">>

Turn(role, content) == [role |-> role, content |-> content]

-----------------------------------------------------------------------------
(* Conversation history and the completion adapter *)

\* updateConversationHistory with the tail kept one turn too long
updateConversationHistoryOffByOne(history, userMessage, assistantMessage) ==
  LET h == Append(Append(history, userMessage), assistantMessage) IN
  IF Len(h) > HistoryLimit + 1
  THEN SubSeq(h, Len(h) - HistoryLimit, Len(h))
  ELSE h

\* updateConversationHistory that evicts the one oldest turn when over the limit
updateConversationHistoryDropOldest(history, userMessage, assistantMessage) ==
  LET h == Append(Append(history, userMessage), assistantMessage) IN
  IF Len(h) > HistoryLimit THEN Tail(h) ELSE h

\* Service.updateConversationHistory: append the pair, keep the last 10 turns
updateConversationHistory(history, userMessage, assistantMessage) ==
  LET h == Append(Append(history, userMessage), assistantMessage) IN
  IF Len(h) > HistoryLimit
  THEN SubSeq(h, Len(h) - HistoryLimit + 1, Len(h))
  ELSE h

\* askChatGPT, first two statements: the user's text loses its commas and has
\* its periods turned into line breaks before it is sent and stored
askMessage(message) ==
  ReplaceAll(ReplaceAll(message, sComma, sEmpty), sPeriod, sNewline)

\* the request with the new user turn put before the stored history
buildMessagesUserBeforeHistory(history, message) ==
  <<Turn("system", systemPrompt), Turn("user", message)>> \o history

\* the messages of the request: system turn, stored history, new user turn
buildMessages(history, message) ==
  <<Turn("system", systemPrompt)>> \o history \o <<Turn("user", message)>>

\* trim, drop commas, periods to line breaks
convertPunctuation(content) ==
  ReplaceAll(ReplaceAll(TrimSpace(content), sComma, sEmpty), sPeriod, sNewline)

\* the reply shaping that cuts to 50 words before the punctuation is converted
normalizeReplyCutFirst(content) ==
  LET words == Fields(TrimSpace(content))
      cut == IF Len(words) > WordLimit
             THEN Join(SubSeq(words, 1, WordLimit), sSpace)
             ELSE TrimSpace(content)
  IN ReplaceAll(ReplaceAll(cut, sComma, sEmpty), sPeriod, sNewline)

\* the reply shaping that keeps the last 50 words instead of the first
normalizeReplyLastWords(content) ==
  LET c == convertPunctuation(content)
      words == Fields(c)
  IN IF Len(words) > WordLimit
     THEN Join(SubSeq(words, Len(words) - WordLimit + 1, Len(words)), sSpace)
     ELSE c

\* the reply shaping of askChatGPT: converted text, cut to the first 50 words
\* joined by single spaces when it has more than 50
normalizeReply(content) ==
  LET c == convertPunctuation(content)
      words == Fields(c)
  IN IF Len(words) > WordLimit
     THEN Join(SubSeq(words, 1, WordLimit), sSpace)
     ELSE c

\* the shapes of the HTTP exchange that make askChatGPT return an error
ErrorKinds ==
  {"transportErr", "readErr", "status", "badJSON", "noChoices", "emptyChoices",
   "noMessage", "contentNotString"}

\* a non-empty choices array whose first element is not a JSON object: the
\* unchecked type assertion choices[0].(map[string]interface{}) panics
PanicKinds == {"choiceNotObject"}

ResponseKinds == ErrorKinds \cup PanicKinds \cup {"ok"}

\* askChatGPT that stores the user turn before the exchange and keeps it when
\* the exchange fails
askChatGPTUserFirst(history, message, resp) ==
  LET msg == askMessage(message)
      request == buildMessages(history, msg)
      pending == Append(history, Turn("user", msg))
  IN IF resp.kind \in ErrorKinds
     THEN [outcome |-> "error", text |-> sEmpty, history |-> pending,
           request |-> request]
     ELSE IF resp.kind \in PanicKinds
     THEN [outcome |-> "panic", text |-> sEmpty, history |-> pending,
           request |-> request]
     ELSE LET content == normalizeReply(resp.content)
          IN [outcome |-> "ok", text |-> content,
              history |-> updateConversationHistory(history,
                            Turn("user", msg), Turn("assistant", content)),
              request |-> request]

\* Service.askChatGPT on the stored history, a user text and the exchange's
\* result: what it returns and the history it leaves
askChatGPT(history, message, resp) ==
  LET msg == askMessage(message)
      request == buildMessages(history, msg)
  IN IF resp.kind \in ErrorKinds
     THEN [outcome |-> "error", text |-> sEmpty, history |-> history,
           request |-> request]
     ELSE IF resp.kind \in PanicKinds
     THEN [outcome |-> "panic", text |-> sEmpty, history |-> history,
           request |-> request]
     ELSE LET content == normalizeReply(resp.content)
          IN [outcome |-> "ok", text |-> content,
              history |-> updateConversationHistory(history,
                            Turn("user", msg), Turn("assistant", content)),
              request |-> request]

-----------------------------------------------------------------------------
(* The render surface: what the feed can show *)

sAtBotUpper == <<"@", "B", "O", "T">>
sBotLowerPadded == <<" ", "b", "o", "t", " ">>

\* an entry as rendered: author (h3 span span), mention spans, the username
\* of the reply context (when there is one) and the markup text
Entry(name) ==
  CASE name = "both" ->
         [author |-> sAlice, mentions |-> <<sBot>>, hasReply |-> TRUE,
          replyUser |-> sBotLowerPadded, content |-> sHelloRaw]
    [] name = "plain" ->
         [author |-> sAlice, mentions |-> <<sAlice>>, hasReply |-> TRUE,
          replyUser |-> sAlice, content |-> sHiYou]
    [] name = "self" ->
         [author |-> sAtBotUpper, mentions |-> <<sAtBot>>, hasReply |-> TRUE,
          replyUser |-> sBot, content |-> sHelloRaw]

EntryNames == {"both", "plain", "self"}

\* ids the surface lists: posted and not deleted
Visible(f) == {i \in Ids : f[i] \in EntryNames}

\* a listing that returns the first matching element only
ListingFirstOnly(f, from) ==
  LET shown == {i \in Ids : i >= from /\ f[i] \in EntryNames} IN
  IF shown = {} THEN <<>>
  ELSE <<CHOOSE i \in shown : \A j \in shown : i <= j>>

\* the handles QuerySelectorAll returns, in document order
RECURSIVE Listing(_, _)
Listing(f, from) ==
  IF from > MaxIds THEN <<>>
  ELSE IF f[from] \in EntryNames
       THEN <<from>> \o Listing(f, from + 1)
       ELSE Listing(f, from + 1)

\* raw replies the completion service gives in the watch-loop specification
sReplyRaw == <<" ", "O", "k", ",", " ", "f", "i", "n", "e", ".", " ">>

LoopResponses ==
  {[kind |-> k, content |-> sEmpty] : k \in {"status", "choiceNotObject"}}
    \cup {[kind |-> "ok", content |-> sReplyRaw]}

-----------------------------------------------------------------------------
(* Trigger classification *)

\* TrimSpace, then TrimPrefix "@"
normalizeName(text) == TrimPrefix(TrimSpace(text), sAt)

\* the seen check that never finds an id
AlreadySeenNever(seen, id) == FALSE

\* s.seenMessages[idAttr]
AlreadySeen(seen, id) == id \in seen

\* the author check without the EqualFold (exact comparison)
IsSelfExact(username, bot) == normalizeName(username) = bot

\* the entry is authored by the bot
IsSelf(username, bot) == EqualFold(normalizeName(username), bot)

\* the mention comparison without removing the leading "@"
MentionMatchesNoPrefix(text, bot) == EqualFold(TrimSpace(text), bot)

\* one mention span names the bot
MentionMatches(text, bot) == EqualFold(normalizeName(text), bot)

\* the mention check with the result inverted
isMentionedAlways(mentions, failing, bot) == TRUE

\* the mention loop: spans whose InnerText fails are skipped
isMentioned(mentions, failing, bot) ==
  \E i \in 1..Len(mentions) :
    i \notin failing /\ MentionMatches(mentions[i], bot)

\* Service.isReplyToBot, given how the surface calls end
isReplyToBot(e, how, bot) ==
  IF how = "err" THEN [err |-> TRUE, val |-> FALSE]
  ELSE IF ~e.hasReply \/ how = "noUser" THEN [err |-> FALSE, val |-> FALSE]
  ELSE [err |-> FALSE, val |-> EqualFold(normalizeName(e.replyUser), bot)]

\* the mention texts as the second loop reads them: "" when InnerText fails
RECURSIVE stripMentions(_, _, _, _)
stripMentions(content, mentions, failing, i) ==
  IF i > Len(mentions) THEN content
  ELSE stripMentions(
         ReplaceAll(content, IF i \in failing THEN sEmpty ELSE mentions[i], sEmpty),
         mentions, failing, i + 1)

\* cleanContent that leaves the mentions in the text
cleanContentKeepMentions(content, mentions, failing) == TrimSpace(content)

\* cleanContent of ReadMessages
cleanContent(content, mentions, failing) ==
  TrimSpace(stripMentions(TrimSpace(content), mentions, failing, 1))

-----------------------------------------------------------------------------
(* The watch session: Service.ReadMessages *)

ZeroCount == [i \in Ids |-> 0]

NoProbe == [fn |-> "none", in |-> sEmpty, bot |-> sEmpty, pre |-> sEmpty,
            core |-> sEmpty, suf |-> sEmpty, out |-> sEmpty, match |-> FALSE,
            done |-> FALSE]

NoEvent == [op |-> "none", id |-> 0, why |-> "none", entry |-> "none",
            kind |-> "none", readFailed |-> FALSE, request |-> <<>>,
            text |-> sEmpty]

\* Run has not been called
NoRun == [pc |-> "none", site |-> 0, browser |-> "none", engine |-> "off",
          err |-> <<>>, panicking |-> FALSE]

NoResult == [outcome |-> "none", text |-> sEmpty, history |-> <<>>,
             request |-> <<>>]

Init ==
  /\ pc = "start"
  /\ feed = [i \in Ids |-> "absent"]
  /\ botUsername = sBot
  /\ seenMessages = {}
  /\ conversationHistory = <<>>
  /\ batch = <<>>
  /\ cancelled = FALSE
  /\ result = "none"
  /\ forwarded = ZeroCount
  /\ asked = ZeroCount
  /\ typed = ZeroCount
  /\ sent = ZeroCount
  /\ initReadable = {}
  /\ commitLog = <<>>
  /\ ev = NoEvent
  /\ probe = NoProbe
  /\ run = NoRun

Running == pc \in {"start", "top", "batch"}

(* The surface changes under the program *)

\* a new entry appears at the end of the feed
Post ==
  /\ Running
  /\ \E i \in Ids, name \in EntryNames :
       /\ feed[i] = "absent"
       /\ \A j \in Ids : j < i => feed[j] # "absent"
       /\ feed' = [feed EXCEPT ![i] = name]
  /\ ev' = NoEvent
  /\ UNCHANGED <<pc, botUsername, seenMessages, conversationHistory, batch,
                 cancelled, result, forwarded, asked, typed, sent, initReadable, commitLog, probe, run>>

\* what an edit turns an entry into: an entry that addresses the bot stops
\* doing so, any other entry starts to
Edited(name) == IF name = "both" THEN "plain" ELSE "both"

\* an entry the program has seen is edited: its author, mentions, reply
\* context and text change under the same id (an edit of an entry not yet
\* seen is the same as the entry being posted as edited)
Mutate ==
  /\ Running
  /\ \E i \in Ids :
       /\ feed[i] \in EntryNames
       /\ i \in seenMessages
       /\ feed' = [feed EXCEPT ![i] = Edited(feed[i])]
  /\ ev' = NoEvent
  /\ UNCHANGED <<pc, botUsername, seenMessages, conversationHistory, batch,
                 cancelled, result, forwarded, asked, typed, sent, initReadable, commitLog, probe, run>>

\* an entry the program has not seen yet is deleted from the feed
Remove ==
  /\ Running
  /\ \E i \in Ids :
       /\ feed[i] \in EntryNames
       /\ i \notin seenMessages
       /\ feed' = [feed EXCEPT ![i] = "gone"]
  /\ ev' = NoEvent
  /\ UNCHANGED <<pc, botUsername, seenMessages, conversationHistory, batch,
                 cancelled, result, forwarded, asked, typed, sent, initReadable, commitLog, probe, run>>

\* the caller cancels ctx
Cancel ==
  /\ Running
  /\ ~cancelled
  /\ cancelled' = TRUE
  /\ ev' = NoEvent
  /\ UNCHANGED <<pc, feed, botUsername, seenMessages, conversationHistory,
                 batch, result, forwarded, asked, typed, sent, initReadable, commitLog, probe, run>>

(* The program *)

\* initializeSeenMessages that records nothing
initializeSeenMessagesNothing(seen, listed, readable) == seen

\* initializeSeenMessages: the ids whose attribute is read and non-empty are
\* recorded; a failed read or an empty id is passed over
initializeSeenMessages(seen, listed, readable) ==
  seen \cup {i \in listed : i \in readable}

\* an enumeration failure that is logged, the loop going on with the next tick
listingFailedLogged(err) == [pc |-> "top", result |-> "none"]

\* QuerySelectorAll on the entries fails: ReadMessages returns the error
listingFailed(err) == [pc |-> "done", result |-> err]

\* ReadMessages up to the loop: reset the seen set, run the initialization
\* pass, return its error if the enumeration fails
Start ==
  /\ pc = "start"
  /\ \/ /\ pc' = listingFailed("initError").pc
        /\ result' = listingFailed("initError").result
        /\ seenMessages' = {}
        /\ initReadable' = {}
        /\ ev' = [NoEvent EXCEPT !.op = "start", !.why = "enumError"]
     \/ \E readable \in SUBSET Visible(feed) :
          /\ seenMessages' = initializeSeenMessages({}, Visible(feed), readable)
          /\ initReadable' = readable
          /\ pc' = "top"
          /\ result' = result
          /\ ev' = [NoEvent EXCEPT !.op = "start"]
  /\ UNCHANGED <<feed, botUsername, conversationHistory, batch, cancelled,
                 forwarded, asked, typed, sent, commitLog, probe, run>>

\* the top of the loop: ctx.Done() is looked at, then the feed is enumerated
Tick ==
  /\ pc = "top"
  /\ IF cancelled
     THEN /\ pc' = "done"
          /\ result' = "cancelled"
          /\ batch' = batch
          /\ ev' = [NoEvent EXCEPT !.op = "tick", !.why = "cancelled"]
     ELSE \/ /\ pc' = listingFailed("enumError").pc
             /\ result' = listingFailed("enumError").result
             /\ batch' = batch
             /\ ev' = [NoEvent EXCEPT !.op = "tick", !.why = "enumError"]
          \/ /\ pc' = "batch"
             /\ result' = result
             /\ batch' = Listing(feed, 1)
             /\ ev' = [NoEvent EXCEPT !.op = "tick", !.why = "listed"]
  /\ UNCHANGED <<feed, botUsername, seenMessages, conversationHistory,
                 cancelled, forwarded, asked, typed, sent, initReadable, commitLog, probe, run>>

\* how far the processing of one entry went, from where it stopped
Forwarded(why) == why \notin {"noId", "seen"}
Asked(why) == why \in {"askError", "panic", "typeErr", "sent"}
\* the pair stored only when the reply has been typed into the chat
CommittedWhenSent(why) == why = "sent"
\* the pair is stored by askChatGPT when it has a reply, before typeInChat
Committed(why) == why \in {"typeErr", "sent"}
Typed(why) == why \in {"typeErr", "sent"}
Sent(why) == why = "sent"

Bump(f, i, yes) == IF yes THEN [f EXCEPT ![i] = @ + 1] ELSE f

\* the seen set replaced by the one id
markSeenOnly(seen, id) == {id}

\* s.seenMessages[idAttr] = true
markSeen(seen, id) == seen \cup {id}

\* the entry is answered when it is mentioned or a reply, never when both
AddressedXor(mentioned, reply) == mentioned # reply

\* isMentioned || isReply
Addressed(mentioned, reply) == mentioned \/ reply

\* the state one iteration of the message loop leaves, given where it stopped
Finish(id, why, res, kind, readFailed) ==
  /\ batch' = Tail(batch)
  /\ pc' = IF why = "panic" THEN "panicked" ELSE "batch"
  /\ seenMessages' = IF Forwarded(why) THEN markSeen(seenMessages, id) ELSE seenMessages
  /\ forwarded' = Bump(forwarded, id, Forwarded(why))
  /\ asked' = Bump(asked, id, Asked(why))
  /\ typed' = Bump(typed, id, Typed(why))
  /\ sent' = Bump(sent, id, Sent(why))
  /\ conversationHistory' = IF Asked(why) /\ (Committed(why) \/ res.outcome # "ok")
                            THEN res.history
                            ELSE conversationHistory
  /\ commitLog' = IF Committed(why)
                  THEN Append(commitLog, <<res.request[Len(res.request)],
                                           Turn("assistant", res.text)>>)
                  ELSE commitLog
  /\ ev' = [op |-> "process", id |-> id, why |-> why, entry |-> feed[id],
            kind |-> kind, readFailed |-> readFailed, request |-> res.request,
            text |-> res.text]
  /\ UNCHANGED <<feed, botUsername, cancelled, result, initReadable, probe, run>>

ElementResults == {"ok", "err", "nil", "textErr"}

\* Service.typeInChat: nil only when the box is found, clicked, typed into
\* and Enter is pressed
TypeResults == {"ok", "queryErr", "noBox", "clickErr", "typeErr", "pressErr"}

\* the part of one iteration that follows the classification of an entry as
\* addressed: read the text, strip the mentions, ask, type the reply
Respond(id, e, failing) ==
  \E contentRes \in ElementResults :
    IF contentRes # "ok" THEN Finish(id, "contentErr", NoResult, "none", TRUE)
    ELSE \E failing2 \in SUBSET (1..Len(e.mentions)), resp \in LoopResponses :
      LET res == askChatGPT(conversationHistory,
                   cleanContent(e.content, e.mentions, failing2), resp)
          bad == failing # {} \/ failing2 # {}
      IN IF res.outcome = "error" THEN Finish(id, "askError", res, resp.kind, bad)
         ELSE IF res.outcome = "panic" THEN Finish(id, "panic", res, resp.kind, bad)
         ELSE \E typeRes \in TypeResults :
           Finish(id, IF typeRes = "ok" THEN "sent" ELSE "typeErr", res,
                  resp.kind, bad)

\* the part of one iteration that classifies a newly seen entry
Classify(id, e) ==
  \E userRes \in ElementResults :
    IF userRes # "ok" THEN Finish(id, "entryErr", NoResult, "none", TRUE)
    ELSE IF IsSelf(e.author, botUsername)
    THEN Finish(id, "self", NoResult, "none", FALSE)
    ELSE \E replyRes \in {"ok", "err", "noUser"} :
      LET rep == isReplyToBot(e, replyRes, botUsername) IN
      IF rep.err THEN Finish(id, "entryErr", NoResult, "none", TRUE)
      ELSE \E mentionsRes \in {"ok", "err"} :
        IF mentionsRes = "err" THEN Finish(id, "entryErr", NoResult, "none", TRUE)
        ELSE \E failing \in SUBSET (1..Len(e.mentions)) :
          IF ~Addressed(isMentioned(e.mentions, failing, botUsername), rep.val)
          THEN Finish(id, "unaddressed", NoResult, "none", failing # {})
          ELSE Respond(id, e, failing)

\* one iteration of "for _, message := range messages"
ProcessMessage ==
  /\ pc = "batch"
  /\ batch # <<>>
  /\ LET id == Head(batch) IN
     \E idRes \in (IF feed[id] \in EntryNames THEN {"ok", "err", "empty"} ELSE {"err"}) :
       IF idRes # "ok" THEN Finish(id, "noId", NoResult, "none", idRes = "err")
       ELSE IF AlreadySeen(seenMessages, id)
       THEN Finish(id, "seen", NoResult, "none", FALSE)
       ELSE Classify(id, Entry(feed[id]))

\* the batch is done: time.Sleep, then back to the top of the loop
Sleep ==
  /\ pc = "batch"
  /\ batch = <<>>
  /\ pc' = "top"
  /\ ev' = NoEvent
  /\ UNCHANGED <<feed, botUsername, seenMessages, conversationHistory, batch,
                 cancelled, result, forwarded, asked, typed, sent, initReadable, commitLog, probe, run>>

Next ==
  \/ Post
  \/ Mutate
  \/ Remove
  \/ Cancel
  \/ Start
  \/ Tick
  \/ ProcessMessage
  \/ Sleep

Spec == Init /\ [][Next]_vars

\* nothing has failed: no cancellation, no error returned, no panic, and the
\* last iteration read everything it asked the surface for, got a reply from
\* its completion call and typed it
NoFailure ==
  /\ ~cancelled
  /\ result = "none"
  /\ pc # "panicked"
  /\ ev.op = "process" =>
       (~ev.readFailed /\ ev.why \in {"seen", "self", "unaddressed", "sent"})

\* the watch session followed up to its first failure
NextLive ==
  \/ NoFailure /\ Post
  \/ NoFailure /\ Mutate
  \/ NoFailure /\ Remove
  \/ NoFailure /\ Cancel
  \/ NoFailure /\ Start
  \/ NoFailure /\ Tick
  \/ NoFailure /\ ProcessMessage
  \/ NoFailure /\ Sleep

\* ReadMessages runs in one goroutine and none of its calls blocks for ever
\* (the surface calls and the HTTP client have timeouts, time.Sleep ends): a
\* step of the program that can be taken is taken
SpecLive ==
  /\ Init
  /\ [][NextLive]_vars
  /\ WF_vars(NoFailure /\ Start)
  /\ WF_vars(NoFailure /\ Tick)
  /\ WF_vars(NoFailure /\ ProcessMessage)
  /\ WF_vars(NoFailure /\ Sleep)

-----------------------------------------------------------------------------
(* The orchestration around the watch session: Service.Run and checkSite     *)

\* the sites of config.SiteConfigs, in order
Sites == 1..MaxSites

\* errors as chains of messages: <<>> is nil, fmt.Errorf("...: %w") puts its
\* message in front, errors.Join puts the joined error behind

\* a cleanup error that takes the place of the error being returned
errorsJoinReplacing(err, tmpErr) == IF tmpErr # <<>> THEN tmpErr ELSE err

\* errors.Join(err, tmpErr) of the deferred functions
errorsJoin(err, tmpErr) == err \o tmpErr

Wrap(msg, err) == <<msg>> \o err

\* a failed site that is logged, Run going on with the next configured site
afterCheckSiteNextSite(checkErr) == [pc |-> "loop", err |-> <<>>]

\* Run's loop body after checkSite has returned: the first error ends Run
afterCheckSite(checkErr) ==
  IF checkErr # <<>>
  THEN [pc |-> "stop", err |-> Wrap("error checking site", checkErr)]
  ELSE [pc |-> "loop", err |-> <<>>]

\* the session's variables as the construction of the Service leaves them,
\* Run being called
InitRun ==
  /\ pc = "idle"
  /\ feed = [i \in Ids |-> "absent"]
  /\ botUsername = sBot
  /\ seenMessages = {}
  /\ conversationHistory = <<>>
  /\ batch = <<>>
  /\ cancelled = FALSE
  /\ result = "none"
  /\ forwarded = ZeroCount
  /\ asked = ZeroCount
  /\ typed = ZeroCount
  /\ sent = ZeroCount
  /\ initReadable = {}
  /\ commitLog = <<>>
  /\ ev = NoEvent
  /\ probe = NoProbe
  /\ run = [NoRun EXCEPT !.pc = "run"]

SessionVars == <<pc, feed, botUsername, seenMessages, conversationHistory, batch,
                 cancelled, result, forwarded, asked, typed, sent, initReadable,
                 commitLog, probe>>

\* playwright.Run: its failure is returned at once, before any defer
RunBegin ==
  /\ run.pc = "run"
  /\ \/ run' = [run EXCEPT !.pc = "returned", !.err = <<"can't launch browser">>]
     \/ run' = [run EXCEPT !.pc = "loop", !.engine = "on"]
  /\ ev' = [NoEvent EXCEPT !.op = "run"]
  /\ UNCHANGED SessionVars

\* the head of the loop over the sites and checkSite up to the launch of
\* chromium; the loop exhausted, Run returns err
SiteBegin ==
  /\ run.pc = "loop"
  /\ IF run.site = MaxSites
     THEN run' = [run EXCEPT !.pc = "stop"]
     ELSE \/ run' = [run EXCEPT !.site = @ + 1,
                                !.pc = afterCheckSite(<<"can't launch chromium">>).pc,
                                !.err = afterCheckSite(<<"can't launch chromium">>).err]
          \/ run' = [run EXCEPT !.site = @ + 1, !.browser = "open", !.pc = "page"]
  /\ ev' = [NoEvent EXCEPT !.op = "site"]
  /\ UNCHANGED SessionVars

\* createPage
CreatePage ==
  /\ run.pc = "page"
  /\ \/ run' = [run EXCEPT !.pc = "close", !.err = <<"can't create page">>]
     \/ run' = [run EXCEPT !.pc = "open"]
  /\ ev' = [NoEvent EXCEPT !.op = "page"]
  /\ UNCHANGED SessionVars

\* openSite
OpenSite ==
  /\ run.pc = "open"
  /\ \/ run' = [run EXCEPT !.pc = "close", !.err = <<"can't open site">>]
     \/ run' = [run EXCEPT !.pc = "wait"]
  /\ ev' = [NoEvent EXCEPT !.op = "open"]
  /\ UNCHANGED SessionVars

\* the operator enters "start": ReadMessages is called
EnterStart ==
  /\ run.pc = "wait"
  /\ run' = [run EXCEPT !.pc = "read"]
  /\ pc' = "start"
  /\ result' = "none"
  /\ ev' = [NoEvent EXCEPT !.op = "enter"]
  /\ UNCHANGED <<feed, botUsername, seenMessages, conversationHistory, batch,
                 cancelled, forwarded, asked, typed, sent, initReadable,
                 commitLog, probe>>

\* ReadMessages has returned its error to checkSite, or has panicked
SessionEnd ==
  /\ run.pc = "read"
  /\ pc \in {"done", "panicked"}
  /\ run' = IF pc = "panicked"
            THEN [run EXCEPT !.pc = "close", !.panicking = TRUE]
            ELSE [run EXCEPT !.pc = "close",
                             !.err = Wrap("can't read messages", <<result>>)]
  /\ ev' = [NoEvent EXCEPT !.op = "sessionEnd"]
  /\ UNCHANGED SessionVars

\* checkSite's deferred function: browser.Close, its error joined; then Run's
\* loop body takes checkSite's result (a panic goes on unwinding)
CloseBrowser ==
  /\ run.pc = "close"
  /\ \E tmpErr \in {<<>>, <<"error closing browser">>} :
       LET checkErr == errorsJoin(run.err, tmpErr) IN
       run' = IF run.panicking
              THEN [run EXCEPT !.browser = "closed", !.pc = "stop"]
              ELSE [run EXCEPT !.browser = "closed",
                               !.pc = afterCheckSite(checkErr).pc,
                               !.err = afterCheckSite(checkErr).err]
  /\ ev' = [NoEvent EXCEPT !.op = "close"]
  /\ UNCHANGED SessionVars

\* Run's deferred function: pw.Stop, its error joined; Run returns, or the
\* panic ends the process
StopEngine ==
  /\ run.pc = "stop"
  /\ \E tmpErr \in {<<>>, <<"error stopping browser">>} :
       run' = [run EXCEPT !.engine = "stopped",
                          !.pc = IF run.panicking THEN "crashed" ELSE "returned",
                          !.err = IF run.panicking THEN run.err
                                  ELSE errorsJoin(run.err, tmpErr)]
  /\ ev' = [NoEvent EXCEPT !.op = "stop"]
  /\ UNCHANGED SessionVars

NextRun ==
  \/ RunBegin
  \/ SiteBegin
  \/ CreatePage
  \/ OpenSite
  \/ EnterStart
  \/ SessionEnd
  \/ CloseBrowser
  \/ StopEngine
  \/ Next

SpecRun == InitRun /\ [][NextRun]_vars

-----------------------------------------------------------------------------
(* The completion adapter on its own: askChatGPT called again and again on   *)
(* the history it leaves, as ReadMessages calls it for one addressed entry   *)
(* after another                                                             *)

sOkPeriod == <<"o", "k", ".">>

AskTexts == {sHiYou, sOkPeriod}

AskResponses ==
  {[kind |-> k, content |-> sEmpty] : k \in ErrorKinds \cup PanicKinds}
    \cup {[kind |-> "ok", content |-> sReplyRaw]}

InitAsk ==
  /\ pc = "adapter"
  /\ feed = [i \in Ids |-> "absent"]
  /\ botUsername = sBot
  /\ seenMessages = {}
  /\ conversationHistory = <<>>
  /\ batch = <<>>
  /\ cancelled = FALSE
  /\ result = "none"
  /\ forwarded = ZeroCount
  /\ asked = ZeroCount
  /\ typed = ZeroCount
  /\ sent = ZeroCount
  /\ initReadable = {}
  /\ commitLog = <<>>
  /\ ev = NoEvent
  /\ probe = NoProbe
  /\ run = NoRun

\* one call of askChatGPT
AskCall ==
  /\ pc = "adapter"
  /\ Len(commitLog) < MaxAsks
  /\ \E message \in AskTexts, resp \in AskResponses :
       LET res == askChatGPT(conversationHistory, message, resp) IN
       /\ conversationHistory' = res.history
       /\ commitLog' = IF res.outcome = "ok"
                       THEN Append(commitLog, <<res.request[Len(res.request)],
                                                Turn("assistant", res.text)>>)
                       ELSE commitLog
       /\ pc' = IF res.outcome = "panic" THEN "panicked" ELSE pc
       /\ ev' = [op |-> "ask", id |-> 0, why |-> res.outcome, entry |-> "none",
                 kind |-> resp.kind, readFailed |-> FALSE,
                 request |-> res.request, text |-> res.text]
  /\ UNCHANGED <<feed, botUsername, seenMessages, batch, cancelled, result,
                 forwarded, asked, typed, sent, initReadable, probe, run>>

NextAsk == AskCall

SpecAsk == InitAsk /\ [][NextAsk]_vars

-----------------------------------------------------------------------------
(* The string functions on their own *)

\* n copies of word, each followed by sep
Repeat(word, sep, n) ==
  LET unit == word \o sep
  IN [i \in 1..(n * Len(unit)) |-> unit[((i - 1) % Len(unit)) + 1]]

sWordA == <<"a">>
sWordB == <<"b", ",">>
sWordCD == <<"c", ".", "d">>

\* words a raw reply is made of: plain, with a comma, with a period inside,
\* and words that are nothing but punctuation
ReplyWordSet == {sWordA, sWordB, sWordCD, sComma, sPeriod}

\* raw replies of ReplyWords words: k times one word, then another word
LongReplies ==
  {Repeat(w1, sep, k) \o Repeat(w2, sep, ReplyWords - k) :
     w1 \in ReplyWordSet, w2 \in ReplyWordSet,
     k \in {0, 30, 49, 60}, sep \in {sSpace, sNewline}}

MentionPrefixes ==
  {sEmpty, sAt, sSpace, <<" ", "@">>, <<"\n", "@">>, <<"@", " ">>, <<"@", "@">>}

MentionCores ==
  {sFoo, <<"f", "o", "o">>, <<"F", "O", "O">>, <<"f", "O", "o">>, <<"F", "o">>,
   <<"F", "o", "o", "o">>, sBot, <<"b", "o", "t">>}

MentionSuffixes == {sEmpty, sSpace, <<"\n", " ">>}

\* raw replies of every length around the word limit: no word, one word, 50
\* and 51 words, next to the long ones and the short reply of the watch loop
ShortReplies ==
  {Repeat(w, sep, n) : w \in ReplyWordSet, n \in {0, 1, WordLimit, WordLimit + 1},
                       sep \in {sSpace, sNewline}}
    \cup {sReplyRaw}

AskProbes ==
  {[NoProbe EXCEPT !.fn = "askChatGPT", !.in = r] :
     r \in LongReplies \cup ShortReplies}

NormalizeProbes ==
  {[NoProbe EXCEPT !.fn = "normalizeReply", !.in = r] : r \in LongReplies}

MentionProbes ==
  {[NoProbe EXCEPT !.fn = "mention", !.in = p \o c \o x, !.bot = b,
                   !.pre = p, !.core = c, !.suf = x] :
     p \in MentionPrefixes, c \in MentionCores, x \in MentionSuffixes,
     b \in {sFoo, sBot}}

InitText ==
  /\ pc = "text"
  /\ feed = [i \in Ids |-> "absent"]
  /\ botUsername = sBot
  /\ seenMessages = {}
  /\ conversationHistory = <<>>
  /\ batch = <<>>
  /\ cancelled = FALSE
  /\ result = "none"
  /\ forwarded = ZeroCount
  /\ asked = ZeroCount
  /\ typed = ZeroCount
  /\ sent = ZeroCount
  /\ initReadable = {}
  /\ commitLog = <<>>
  /\ ev = NoEvent
  /\ probe \in NormalizeProbes \cup MentionProbes \cup AskProbes
  /\ run = NoRun

\* the reply shaping applied to a raw reply
ApplyNormalize ==
  /\ pc = "text"
  /\ probe.fn = "normalizeReply"
  /\ ~probe.done
  /\ probe' = [probe EXCEPT !.out = normalizeReply(probe.in), !.done = TRUE]
  /\ UNCHANGED <<pc, feed, botUsername, seenMessages, conversationHistory,
                 batch, cancelled, result, forwarded, asked, typed, sent,
                 initReadable, commitLog, ev, run>>

\* the mention comparison applied to the text of one mention span
ApplyMention ==
  /\ pc = "text"
  /\ probe.fn = "mention"
  /\ ~probe.done
  /\ probe' = [probe EXCEPT !.match = isMentioned(<<probe.in>>, {}, probe.bot),
                            !.done = TRUE]
  /\ UNCHANGED <<pc, feed, botUsername, seenMessages, conversationHistory,
                 batch, cancelled, result, forwarded, asked, typed, sent,
                 initReadable, commitLog, ev, run>>

\* a successful completion call whose raw reply is the probe, as ReadMessages
\* makes it: the text returned is the text handed to typeInChat
ApplyAsk ==
  /\ pc = "text"
  /\ probe.fn = "askChatGPT"
  /\ ~probe.done
  /\ LET res == askChatGPT(conversationHistory, sHiYou,
                           [kind |-> "ok", content |-> probe.in]) IN
     /\ probe' = [probe EXCEPT !.out = res.text, !.done = TRUE]
     /\ conversationHistory' = res.history
     /\ commitLog' = Append(commitLog, <<res.request[Len(res.request)],
                                         Turn("assistant", res.text)>>)
     /\ ev' = [op |-> "ask", id |-> 0, why |-> res.outcome, entry |-> "none",
               kind |-> "ok", readFailed |-> FALSE, request |-> res.request,
               text |-> res.text]
  /\ UNCHANGED <<pc, feed, botUsername, seenMessages, batch, cancelled, result,
                 forwarded, asked, typed, sent, initReadable, run>>

NextText == ApplyNormalize \/ ApplyMention \/ ApplyAsk

SpecText == InitText /\ [][NextText]_vars

-----------------------------------------------------------------------------
(* Properties of the watch session *)

\* the entry the next iteration of the message loop works on
Current == Head(batch)

\* the iteration that is about to run finds its entry in the feed
AtEntry == pc = "batch" /\ batch # <<>> /\ feed[Current] \in EntryNames

\* the last step was an iteration of the message loop
Processed == ev.op = "process"

\* the user turn of the last completion request
UserTurn == ev.request[Len(ev.request)]

\* C1. Dedup idempotence: once an id is in the seen set (put there by the
\* initialization pass or by an iteration of the loop), no step forwards an
\* entry with that id for classification, asks for a completion for it or
\* types a reply for it, whatever the entry shows by then.
C1_DedupIdempotence ==
  [][\A i \in Ids :
       i \in seenMessages =>
         /\ forwarded'[i] = forwarded[i]
         /\ asked'[i] = asked[i]
         /\ typed'[i] = typed[i]
         /\ sent'[i] = sent[i]]_vars

\* an entry that was answered, then edited so that it no longer addresses the
\* bot, is polled again and passed over as seen
C1_Witness ==
  /\ Processed
  /\ ev.why = "seen"
  /\ ev.entry = "plain"
  /\ sent[ev.id] = 1

\* the entry shown under a name is one the claims call qualifying: not
\* authored by the bot, and mentioning the bot or replying to the bot
NamesBot(text) == EqualFold(TrimPrefix(TrimSpace(text), sAt), botUsername)

MentionsBot(name) ==
  \E k \in 1..Len(Entry(name).mentions) : NamesBot(Entry(name).mentions[k])

RepliesToBot(name) == Entry(name).hasReply /\ NamesBot(Entry(name).replyUser)

Qualifies(name) ==
  /\ ~NamesBot(Entry(name).author)
  /\ MentionsBot(name) \/ RepliesToBot(name)

C3_AllVisibleSeeded ==
  (ev.op = "start" /\ pc = "top") =>
    /\ Visible(feed) \subseteq seenMessages
    /\ \A i \in Ids : forwarded[i] = 0 /\ asked[i] = 0 /\ typed[i] = 0

\* C3 as amended. The initialization pass puts in the seen set the id of every
\* entry whose id attribute it reads, without forwarding it; when it ends
\* nothing was asked or typed and the history is empty; and no entry it
\* recorded is classified or answered later in the session.
C3_InitializationPass ==
  /\ \A i \in initReadable :
       /\ i \in seenMessages
       /\ forwarded[i] = 0
       /\ asked[i] = 0
       /\ typed[i] = 0
  /\ ev.op = "start" =>
       /\ \A i \in Ids : forwarded[i] = 0 /\ asked[i] = 0 /\ typed[i] = 0
       /\ conversationHistory = <<>>
       /\ pc = "top" => seenMessages = initReadable

\* an entry recorded by the initialization pass addresses the bot, is polled
\* by a tick and is passed over
C3_Witness ==
  /\ Processed
  /\ ev.why = "seen"
  /\ ev.id \in initReadable
  /\ Qualifies(ev.entry)
  /\ asked[ev.id] = 0

\* the author of the entry is the bot: equal to the bot's name without regard
\* to case, a leading "@" set aside
AuthorIsBot(name) ==
  EqualFold(TrimPrefix(Entry(name).author, sAt), botUsername)

\* C4. Self-exclusion: an iteration that works on an entry authored by the bot
\* asks for no completion and types nothing, whatever the entry mentions and
\* replies to.
C4_SelfExclusion ==
  [][(AtEntry /\ AuthorIsBot(feed[Current])) =>
       /\ asked' = asked
       /\ typed' = typed
       /\ sent' = sent
       /\ conversationHistory' = conversationHistory]_vars

\* an entry authored by the bot that mentions the bot and replies to the bot
\* was forwarded and dropped
C4_Witness ==
  /\ Processed
  /\ ev.why = "self"
  /\ AuthorIsBot(ev.entry)
  /\ \E k \in 1..Len(Entry(ev.entry).mentions) :
       MentionMatches(Entry(ev.entry).mentions[k], botUsername)
  /\ Entry(ev.entry).hasReply
  /\ forwarded[ev.id] = 1
  /\ asked[ev.id] = 0

\* the turns of a sequence of exchange pairs, in order
Flatten(log) ==
  [k \in 1..(2 * Len(log)) |-> log[(k + 1) \div 2][IF k % 2 = 1 THEN 1 ELSE 2]]

\* the last n elements of a sequence
LastN(seq, n) ==
  IF Len(seq) <= n THEN seq ELSE SubSeq(seq, Len(seq) - n + 1, Len(seq))

\* C5. History bound: the stored history never holds more than 10 turns; it
\* is the last 10 turns of everything committed, in the order committed, so
\* that after 6 commits it holds pairs 2 to 6 and the first pair is gone.
C5_HistoryBound ==
  /\ Len(conversationHistory) <= 10
  /\ conversationHistory = LastN(Flatten(commitLog), 10)
  /\ Len(commitLog) = 6 =>
       conversationHistory = Flatten(SubSeq(commitLog, 2, 6))

\* six pairs were committed, the first two different, and the first is gone
C5_Witness ==
  /\ Len(commitLog) = 6
  /\ commitLog[1] # commitLog[2]
  /\ Len(conversationHistory) = 10
  /\ conversationHistory[1] = commitLog[2][1]
  /\ conversationHistory[10] = commitLog[6][2]

\* C6. Completion failure: an iteration whose completion exchange ends in an
\* error leaves the stored history as it was, types nothing, and goes on to
\* the rest of the batch.
C6_CompletionFailure ==
  [][(ev'.op = "process" /\ ev'.kind \in ErrorKinds) =>
       /\ conversationHistory' = conversationHistory
       /\ commitLog' = commitLog
       /\ typed' = typed
       /\ sent' = sent
       /\ asked'[ev'.id] = asked[ev'.id] + 1
       /\ pc' = "batch"
       /\ batch' = Tail(batch)]_vars

\* the completion failed for an addressed entry with another entry left in
\* the batch
C6_Witness ==
  /\ Processed
  /\ ev.kind \in ErrorKinds
  /\ Qualifies(ev.entry)
  /\ asked[ev.id] = 1
  /\ typed[ev.id] = 0
  /\ pc = "batch"
  /\ batch # <<>>

sAtHelloLine == <<"@", " ", "h", "e", "l", "l", "o", "\n">>

\* the scenario of C7: the entry mentions "Bot", reads "@Bot hello.", the bot
\* is "Bot", and every read of the entry succeeded
MentionScenario ==
  /\ Processed
  /\ Forwarded(ev.why)
  /\ botUsername = sBot
  /\ Entry(ev.entry).mentions = <<sBot>>
  /\ Entry(ev.entry).content = sHelloRaw
  /\ ~ev.readFailed

\* C7 as stated. The scenario yields one completion call whose user turn reads
\* "hello" and, when the completion succeeds, one injected response.
C7_UserTurnHello ==
  MentionScenario =>
    /\ asked[ev.id] = 1
    /\ Asked(ev.why)
    /\ UserTurn = Turn("user", sHello)
    /\ ev.kind = "ok" => sent[ev.id] = 1

\* C7 as amended. The scenario yields one completion call whose user turn
\* reads "@ hello" followed by a line break (the mention text "Bot" is cut
\* out, the "@" stays, the period becomes a line break) and, when the
\* completion succeeds, one typing of the reply, which submits it when the
\* surface actions succeed.
C7_MentionTrigger ==
  MentionScenario =>
    /\ asked[ev.id] = 1
    /\ Asked(ev.why)
    /\ UserTurn = Turn("user", sAtHelloLine)
    /\ ev.kind = "ok" =>
         /\ typed[ev.id] = 1
         /\ ev.why \in {"sent", "typeErr"}
         /\ sent[ev.id] = IF ev.why = "sent" THEN 1 ELSE 0
    /\ ev.kind # "ok" => typed[ev.id] = 0

\* the scenario ran and the reply was submitted
C7_Witness ==
  /\ MentionScenario
  /\ ev.why = "sent"
  /\ sent[ev.id] = 1

\* C8. Unaddressed entry: an iteration that works on an entry with no mention
\* of the bot that is no reply to the bot asks for no completion, types
\* nothing and leaves the history as it was.
C8_Unaddressed ==
  [][(AtEntry /\ ~MentionsBot(feed[Current]) /\ ~RepliesToBot(feed[Current])) =>
       /\ asked' = asked
       /\ typed' = typed
       /\ sent' = sent
       /\ conversationHistory' = conversationHistory]_vars

\* a newly seen entry that does not address the bot was classified and dropped
C8_Witness ==
  /\ Processed
  /\ ev.why = "unaddressed"
  /\ ~ev.readFailed
  /\ ~MentionsBot(ev.entry)
  /\ ~RepliesToBot(ev.entry)
  /\ forwarded[ev.id] = 1
  /\ asked[ev.id] = 0

-----------------------------------------------------------------------------
(* Properties of the string functions *)

Normalized == probe.done /\ probe.fn = "normalizeReply"

\* C9 as stated. A raw reply of 120 words is shaped into exactly 50 words, the
\* first 50 words of the punctuation-converted reply.
C9_AlwaysFiftyWords ==
  (Normalized /\ Len(Fields(probe.in)) = ReplyWords) =>
    /\ Len(Fields(probe.out)) = 50
    /\ Len(Fields(convertPunctuation(probe.in))) >= 50
    /\ Fields(probe.out) = SubSeq(Fields(convertPunctuation(probe.in)), 1, 50)

\* C9 as amended. A raw reply whose punctuation-converted text has more than 50
\* words is shaped into exactly its first 50 words, joined by single spaces;
\* a reply whose converted text has 50 words or fewer (as a reply of 120 words
\* of which fewer than 51 are more than commas and periods) comes out as
\* converted, shorter than 50 words or not.
C9_TruncationLaw ==
  Normalized =>
    LET converted == convertPunctuation(probe.in)
        words == Fields(converted)
    IN IF Len(words) > 50
       THEN /\ Len(Fields(probe.out)) = 50
            /\ Fields(probe.out) = SubSeq(words, 1, 50)
            /\ probe.out = Join(SubSeq(words, 1, 50), sSpace)
       ELSE /\ probe.out = converted
            /\ Fields(probe.out) = words

\* a reply of two kinds of words was cut to its first 50 words
C9_Witness ==
  /\ Normalized
  /\ Len(Fields(probe.in)) = ReplyWords
  /\ Len(Fields(probe.out)) = 50
  /\ Fields(probe.out)[1] # Fields(probe.out)[50]
  /\ Fields(probe.out)[1] = Fields(convertPunctuation(probe.in))[1]

Matched == probe.done /\ probe.fn = "mention"

\* C10 as stated. A mention matches exactly when, one leading "@" removed, it
\* equals the bot's name without regard to case.
C10_MatchAfterAt ==
  Matched => (probe.match <=> EqualFold(TrimPrefix(probe.in, sAt), probe.bot))

\* the spellings of a name that differ only in case, among the texts tried
Spellings(name) ==
  IF name = sFoo
  THEN {sFoo, <<"f", "o", "o">>, <<"F", "O", "O">>, <<"f", "O", "o">>}
  ELSE {sBot, <<"b", "o", "t">>}

\* C10 as amended. "@Foo", "foo" and "FOO" match the bot "Foo"; a mention
\* matches exactly when, surrounding white space trimmed and then one leading
\* "@" removed, it equals the bot's name without regard to case.
C10_MentionMatch ==
  Matched =>
    /\ (probe.bot = sFoo /\ probe.in \in {<<"@", "F", "o", "o">>, <<"f", "o", "o">>,
                                          <<"F", "O", "O">>}) => probe.match
    /\ probe.match <=>
         /\ probe.core \in Spellings(probe.bot)
         /\ probe.pre \in {sEmpty, sAt, sSpace, <<" ", "@">>, <<"\n", "@">>}

\* a mention with white space around it and a leading "@" matched
C10_Witness ==
  /\ Matched
  /\ probe.bot = sFoo
  /\ probe.in = <<" ", "@", "F", "O", "O", " ">>
  /\ probe.match

-----------------------------------------------------------------------------
(* C11: a failed enumeration ends the watch session *)

ProgramState == <<pc, result, batch, seenMessages, forwarded, asked, typed, sent,
                  conversationHistory, commitLog>>

\* C11. When the listing of the feed's entries fails, in the initialization
\* pass or in a tick, ReadMessages returns that error at once (nothing is
\* polled, asked or typed by that step), and once ReadMessages has returned
\* nothing of the session moves any more: no entry is polled, classified or
\* answered.
C11_EnumerationFatal ==
  [][/\ (ev'.op \in {"start", "tick"} /\ ev'.why = "enumError") =>
          /\ pc' = "done"
          /\ result' = (IF ev'.op = "start" THEN "initError" ELSE "enumError")
          /\ UNCHANGED <<batch, forwarded, asked, typed, sent,
                         conversationHistory, commitLog>>
     /\ pc = "done" => UNCHANGED ProgramState]_vars

\* a session that has answered an entry ends on a failed enumeration while
\* an entry it has not seen yet is in the feed
C11_Witness ==
  /\ pc = "done"
  /\ result = "enumError"
  /\ ev.op = "tick"
  /\ \E i \in Ids : sent[i] > 0
  /\ \E j \in Ids : feed[j] = "both" /\ j \notin seenMessages

-----------------------------------------------------------------------------
(* C12: failures that belong to one entry *)

\* where an iteration stops when something fails for its entry: the id or an
\* element cannot be read, the reply check fails, the completion call fails
\* (by an error or by a response it cannot take apart), the typing fails
EntryFailures == {"noId", "entryErr", "contentErr", "askError", "panic", "typeErr"}

\* C12. A failure that belongs to one entry never ends the watch loop: the
\* iteration skips the entry, the rest of the batch is still processed and
\* the next tick still runs.
C12_EntryFailuresLocal ==
  (Processed /\ ev.why \in EntryFailures) =>
    /\ pc = "batch"
    /\ result = "none"

-----------------------------------------------------------------------------
(* C13: cancellation *)

\* C13. The cancellation is looked at only at the top of a tick: raised while
\* a batch is processed, it stops nothing of that batch, every remaining
\* entry being processed before the loop comes back to the top; at the top
\* ReadMessages returns the cancellation error without listing the feed.
C13_CooperativeCancellation ==
  [][/\ (cancelled /\ pc = "batch") => pc' \in {"batch", "top"}
     /\ (cancelled /\ pc = "batch" /\ pc' = "top") => batch = <<>>
     /\ (cancelled /\ pc = "top" /\ pc' # "top") =>
          /\ pc' = "done"
          /\ result' = "cancelled"
          /\ batch' = batch
     /\ (result' = "cancelled" /\ result # "cancelled") => pc = "top"]_vars

-----------------------------------------------------------------------------
(* C15: responses the completion adapter cannot use *)

\* C15. Whatever the completion service answers, a transport error, a
\* non-success status or a body that cannot be taken apart (choices missing,
\* empty, or with a first element that is no object with a message.content
\* string) makes askChatGPT return an error and no reply, commit nothing to
\* the history, and leaves the process running.
C15_EveryFailureIsAnError ==
  [][(ev'.op = "ask" /\ ev'.kind \in ErrorKinds \cup PanicKinds) =>
       /\ ev'.why = "error"
       /\ ev'.text = sEmpty
       /\ conversationHistory' = conversationHistory
       /\ commitLog' = commitLog
       /\ pc' = "adapter"]_vars

-----------------------------------------------------------------------------
(* C14: several configured sites *)

\* Run is over: it returned to its caller
Returned == run.pc = "returned"

\* C14 as stated. A site whose processing fails is passed over and Run goes
\* on with the next configured site: when Run returns after the engine was
\* started, every configured site has been begun.
C14_MovesOnToNextSite ==
  (Returned /\ run.engine = "stopped") => run.site = MaxSites

\* C14 as amended. The first site whose processing fails ends Run: its browser
\* is closed, the error is wrapped and returned after the engine is stopped,
\* and no later site is begun. As a watch session returns only with an error,
\* no second site is ever begun, and a site is begun only while no browser
\* of another site exists.
C14_FirstFailureEndsRun ==
  /\ run.site <= 1
  /\ run.pc = "loop" => (run.site = 0 /\ run.browser = "none")
  /\ (Returned /\ run.site = 1) =>
       /\ run.err # <<>>
       /\ Head(run.err) = "error checking site"
       /\ run.browser # "open"
       /\ run.engine = "stopped"

\* Run has returned the error of the first site's watch session, which had
\* answered an entry, while another site is configured
C14_Witness ==
  /\ Returned
  /\ run.site = 1
  /\ run.site < MaxSites
  /\ Len(run.err) >= 2
  /\ run.err[2] = "can't read messages"
  /\ \E i \in Ids : sent[i] > 0

-----------------------------------------------------------------------------
(* C19: cleanup on the way out *)

\* C19. When a site's session ends with an error after the browser was
\* launched (page creation, navigation, enumeration, cancellation), the
\* browser has been closed and the engine stopped when Run returns, the
\* engine never before the browser; the error returned starts with the
\* session's error, and the cleanup errors come joined behind it.
C19_CleanupBeforeReturn ==
  /\ run.engine = "stopped" => run.browser # "open"
  /\ (Returned /\ run.browser # "none") =>
       /\ run.browser = "closed"
       /\ run.engine = "stopped"
       /\ Len(run.err) >= 2
       /\ run.err[1] = "error checking site"
       /\ run.err[2] \in {"can't create page", "can't open site", "can't read messages"}
       /\ LET n == IF run.err[2] = "can't read messages" THEN 3 ELSE 2 IN
          /\ Len(run.err) >= n
          /\ n = 3 => (run.err[3] = result /\
                       result \in {"initError", "enumError", "cancelled"})
          /\ SubSeq(run.err, n + 1, Len(run.err)) \in
               {<<>>, <<"error closing browser">>, <<"error stopping browser">>,
                <<"error closing browser", "error stopping browser">>}

\* a cancelled session: both cleanup steps failed and their errors are
\* joined behind the cancellation error
C19_Witness ==
  /\ Returned
  /\ run.err = <<"error checking site", "can't read messages", "cancelled",
                 "error closing browser", "error stopping browser">>
  /\ run.browser = "closed"
  /\ run.engine = "stopped"

-----------------------------------------------------------------------------
(* C16: when the exchange pair is stored *)

\* the step stored an exchange pair
Stored == Len(commitLog') = Len(commitLog) + 1

\* C16 as stated. The exchange pair is appended to the history only after the
\* reply was submitted through the surface: a step that stores a pair is a
\* step whose typeInChat call returned nil.
C16_StoredAfterInjection ==
  [][(ev'.op = "process" /\ conversationHistory' # conversationHistory) =>
       ev'.why = "sent"]_vars

\* C16 as amended. The pair is appended by the completion call itself, once
\* the reply is normalized and before it is handed to typeInChat: a step
\* stores a pair exactly when its completion call gave a reply, whether the
\* typing then succeeds or fails; the pair is the request's user turn and
\* the reply handed to typeInChat, and the history is not touched otherwise.
C16_StoredBeforeInjection ==
  [][ev'.op = "process" =>
       /\ Stored <=> ev'.why \in {"typeErr", "sent"}
       /\ Stored <=> typed' # typed
       /\ Stored =>
            conversationHistory' =
              updateConversationHistory(conversationHistory,
                ev'.request[Len(ev'.request)], Turn("assistant", ev'.text))
       /\ ~Stored => (conversationHistory' = conversationHistory
                      /\ commitLog' = commitLog)]_vars

\* the typing of a reply failed and the pair is in the history
C16_Witness ==
  /\ Processed
  /\ ev.why = "typeErr"
  /\ sent[ev.id] = 0
  /\ Len(conversationHistory) >= 2
  /\ conversationHistory[Len(conversationHistory)] = Turn("assistant", ev.text)

-----------------------------------------------------------------------------
(* C17: the turns of a completion request *)

SystemTurns(req) == {i \in 1..Len(req) : req[i].role = "system"}

\* C17. A completion request is the one fixed system turn, then the stored
\* history in stored order, then the new user turn, so at most 12 turns;
\* building it stores nothing: the history is as before when the call fails
\* and gains only the exchange pair when it succeeds, never the system turn.
C17_RequestShape ==
  [][ev'.op = "ask" =>
       LET req == ev'.request
           last == req[Len(req)]
       IN /\ Len(req) = Len(conversationHistory) + 2
          /\ Len(req) <= HistoryLimit + 2
          /\ req[1] = Turn("system", systemPrompt)
          /\ SystemTurns(req) = {1}
          /\ SubSeq(req, 2, Len(req) - 1) = conversationHistory
          /\ last \in {Turn("user", askMessage(m)) : m \in AskTexts}
          /\ ev'.why # "ok" => conversationHistory' = conversationHistory
          /\ ev'.why = "ok" =>
               conversationHistory' =
                 updateConversationHistory(conversationHistory, last,
                                           Turn("assistant", ev'.text))
          /\ SystemTurns(conversationHistory') = {}]_vars

\* a request made on a full history: twelve turns
C17_Witness ==
  /\ ev.op = "ask"
  /\ Len(ev.request) = HistoryLimit + 2
  /\ ev.request[2].role = "user"
  /\ ev.request[HistoryLimit + 2].role = "user"

-----------------------------------------------------------------------------
(* C18: the history is made of pairs *)

\* h is a sequence of (user, assistant) pairs
Paired(h) ==
  /\ Len(h) % 2 = 0
  /\ \A i \in 1..Len(h) :
       h[i].role = (IF i % 2 = 1 THEN "user" ELSE "assistant")

\* C18. The stored history has even length and is made of consecutive (user,
\* assistant) pairs starting with a user turn, each of them a pair that was
\* committed together; it holds no system turn, and an eviction removes
\* whole pairs.
C18_PairingInvariant ==
  /\ Paired(conversationHistory)
  /\ \A k \in 1..(Len(conversationHistory) \div 2) :
       \E j \in 1..Len(commitLog) :
         commitLog[j] = <<conversationHistory[2 * k - 1], conversationHistory[2 * k]>>
  /\ \A i \in 1..Len(conversationHistory) : conversationHistory[i].role # "system"

\* a pair has been evicted from a full history
C18_Witness ==
  /\ Len(commitLog) * 2 > HistoryLimit
  /\ Len(conversationHistory) = HistoryLimit
  /\ conversationHistory[1] = commitLog[Len(commitLog) - 4][1]

-----------------------------------------------------------------------------
(* C20: the life of the seen set *)

\* C20. The seen set is empty when a watch session starts, holds after the
\* initialization pass only ids that pass recorded, and from then on only
\* grows: no step removes an id, the set after a step containing the set
\* before it.
C20_SeenSetLifecycle ==
  [][/\ pc = "start" => seenMessages = {}
     /\ ev'.op = "start" =>
          (seenMessages' = initReadable' /\ seenMessages' \subseteq Visible(feed))
     /\ seenMessages \subseteq seenMessages'
     /\ (ev'.op = "process" /\ Forwarded(ev'.why)) =>
          seenMessages' = seenMessages \cup {ev'.id}]_vars

\* the set holds an id of the initialization pass and a tick has added another
C20_Witness ==
  /\ Processed
  /\ ev.id \in seenMessages
  /\ ev.id \notin initReadable
  /\ forwarded[ev.id] = 1
  /\ initReadable # {}
  /\ initReadable \subseteq seenMessages

-----------------------------------------------------------------------------
(* C22: the reply a successful completion call returns *)

Chars(text) == {text[i] : i \in 1..Len(text)}

\* C22. Whatever the raw reply and its length, the text a successful
\* completion call returns has no comma and no period and at most 50 words;
\* the assistant turn stored in the history is that same text, the one handed
\* to typeInChat.
C22_ReplyNormalized ==
  (probe.done /\ probe.fn = "askChatGPT") =>
    /\ "," \notin Chars(probe.out)
    /\ "." \notin Chars(probe.out)
    /\ Len(Fields(probe.out)) <= WordLimit
    /\ ev.text = probe.out
    /\ Len(conversationHistory) = 2
    /\ conversationHistory[2] = Turn("assistant", ev.text)
    /\ commitLog[1][2] = Turn("assistant", ev.text)

\* a raw reply of more than 50 words with commas and periods in its words was
\* cut to 50 words and stored
C22_Witness ==
  /\ probe.done
  /\ probe.fn = "askChatGPT"
  /\ "," \in Chars(probe.in)
  /\ "." \in Chars(probe.in)
  /\ Len(Fields(probe.in)) > WordLimit
  /\ Len(Fields(probe.out)) = WordLimit
  /\ conversationHistory[2].content = probe.out

-----------------------------------------------------------------------------
(* C21: an addressed entry is answered *)

\* the initialization pass is over and entry i, which addresses the bot and
\* is not the bot's, is in the feed and has not been seen
Awaiting(i) ==
  /\ pc # "start"
  /\ feed[i] \in EntryNames
  /\ Qualifies(feed[i])
  /\ i \notin seenMessages

\* entry i has just been answered: one completion call, one reply typed and
\* submitted, and the pair of that exchange is the last of the history
Answered(i) ==
  /\ Processed
  /\ ev.id = i
  /\ ev.why = "sent"
  /\ forwarded[i] = 1
  /\ asked[i] = 1
  /\ typed[i] = 1
  /\ sent[i] = 1
  /\ commitLog # <<>>
  /\ commitLog[Len(commitLog)] = <<UserTurn, Turn("assistant", ev.text)>>
  /\ LastN(conversationHistory, 2) = <<UserTurn, Turn("assistant", ev.text)>>

\* C21. When no cancellation is raised and no surface call or completion call
\* fails, every entry that is in the feed unseen after the initialization
\* pass, is not authored by the bot and mentions the bot or replies to it, is
\* eventually answered, with one response injected and one exchange pair
\* committed, unless it leaves the feed before it is polled.
C21_ResponseLiveness ==
  []NoFailure =>
    \A i \in Ids : Awaiting(i) ~> (Answered(i) \/ feed[i] = "gone")

\* the second entry of the feed, posted after the initialization pass, has
\* been answered with nothing having failed
C21_Witness ==
  /\ NoFailure
  /\ Answered(2)
  /\ 2 \notin initReadable
  /\ 1 \in seenMessages

====
